---- MODULE Spec2Model ----
(***************************************************************************)
(* Terrain generation and chunk streaming of the voxel world:              *)
(*   WorldGenerator (systems/worldGen)  - generateChunk, getChunk,         *)
(*                                        getBlock, setBlock, LRU cache    *)
(*   ChunkManager (systems/ChunkManager) - updateChunks, setBlock,         *)
(*                                        getChunkMesh, the worker pool    *)
(*                                                                         *)
(* The world is modelled at a reduced size: CHUNK_SIZE, WORLD_HEIGHT,      *)
(* WATER_LEVEL, BASE_HEIGHT, DIRT_DEPTH and CACHE_SIZE carry the source's  *)
(* names but smaller values (source: 16, 256, 32, 5, 4, 512), so that a    *)
(* chunk is a CHUNK_SIZE x WORLD_HEIGHT x CHUNK_SIZE array TLC can hold.   *)
(* All coordinate arithmetic is written in terms of these names.           *)
(***************************************************************************)
EXTENDS Integers, Sequences, FiniteSets, TLC

VARIABLES
    seed,               \* the noise generators created with the WorldGenerator
    heap,               \* the Chunk objects ever created, by object id
    chunks,             \* WorldGenerator.chunks: LRU cache, least recent first
    activeChunks,       \* ChunkManager.activeChunks: key -> Chunk object id
    chunkPool,          \* ChunkManager.chunkPool: LRU cache of ChunkMeshData
    workerQueue,        \* ChunkManager.workerQueue
    activeWorkerCount,  \* ChunkManager.activeWorkerCount
    inbox,              \* per worker of this.workers: the jobs posted to it and
                        \* not yet taken
    terminated,         \* the workers on which terminate() has been called
    calls,              \* the updateChunks invocations and the jobs each awaits
    answered,           \* ids of the jobs a worker has answered with a result
    failed,             \* ids of the jobs that crashed or were answered malformed
    last,               \* the last call made on the public interface
    ops                 \* number of block and chunk calls made so far

vars == <<seed, heap, chunks, activeChunks, chunkPool, workerQueue,
          activeWorkerCount, inbox, terminated, calls, answered, failed, last, ops>>

worldVars == <<seed, heap, chunks>>
poolVars == <<workerQueue, activeWorkerCount, inbox, terminated, calls, answered, failed>>

(***************************************************************************)
(* Sizes                                                                   *)
(***************************************************************************)
CHUNK_SIZE == 5
WORLD_HEIGHT == 6
WATER_LEVEL == 2
BASE_HEIGHT == 1
DIRT_DEPTH == 1
CACHE_SIZE == 2
MAX_CONCURRENT_WORKERS == 4

BEACH_LEVEL == WATER_LEVEL + 2

NumSeeds == 2
ViewDistance == 1      \* the viewDistance the ChunkManager is constructed with
MaxTerrain == 2        \* raw terrain noise ranges over 0 .. WATER_LEVEL + MaxTerrain

BlockTypes == {"AIR", "GRASS", "DIRT", "STONE", "WOOD", "LEAVES", "SWORD", "WATER", "SAND"}

Local == 0 .. (CHUNK_SIZE - 1)
Heights == 0 .. (WORLD_HEIGHT - 1)

Undefined == 0          \* no object / no value

\* v itself; comparing it evaluates every entry of a function once, so that
\* later applications of it look the entries up
Evaluated(v) == LET value == v IN IF value = value THEN value ELSE value

Min(a, b) == IF a <= b THEN a ELSE b
Max(a, b) == IF a >= b THEN a ELSE b

(***************************************************************************)
(* JavaScript arithmetic                                                   *)
(***************************************************************************)
\* Math.floor(a / b) for b > 0
FloorDiv(a, b) == a \div b

\* a % b of JavaScript: the remainder takes the sign of the dividend
JsRem(a, b) == IF a >= 0 THEN a % b ELSE -((-a) % b)

\* Math.floor(x / CHUNK_SIZE)
ChunkCoord(x) == FloorDiv(x, CHUNK_SIZE)

\* ((x % CHUNK_SIZE) + CHUNK_SIZE) % CHUNK_SIZE
LocalCoordBroken(x) == JsRem(x, CHUNK_SIZE)
LocalCoord(x) == JsRem(JsRem(x, CHUNK_SIZE) + CHUNK_SIZE, CHUNK_SIZE)

getChunkKey(x, z) == <<x, z>>

(***************************************************************************)
(* Noise.  createNoise2D/createNoise3D (simplex-noise) give a function of  *)
(* the coordinates that is fixed once the generator is created; "seed"     *)
(* stands for the generators of one WorldGenerator.  Values are sampled on *)
(* a grid: temperature and moisture in tenths, feature noise in hundredths.*)
(***************************************************************************)
Hash(s, k, a, b, c) ==
    ((s + 1) * 37 + k * 101 + a * 7 + b * 13 + c * 29 + a * b * 3 + b * c * 5) % 1009

temperatureNoise(s, wx, wz) == Hash(s, 1, wx, 0, wz) % 11
moistureNoise(s, wx, wz) == Hash(s, 2, wx, 0, wz) % 11
terrainNoise(s, wx, wz, hm) == (Hash(s, 3, wx, 0, wz) + hm) % (WATER_LEVEL + MaxTerrain + 1)
riverNoise(s, wx, wz) == Hash(s, 4, wx, 0, wz) % 7 = 0
caveNoise(s, wx, y, wz) == Hash(s, 5, wx, y, wz) % 5 = 0
featureNoise(s, wx, y, wz) == (Hash(s, 6, wx, y, wz) % 21) * 10 - 100


(***************************************************************************)
(* Biomes                                                                  *)
(***************************************************************************)
\* BIOMES: heightModifier in tenths, feature densities in hundredths
BIOMES ==
    [DESERT          |-> [heightModifier |-> 7,  trees |-> 1,  rocks |-> 20, flowers |-> 5],
     SAVANNA         |-> [heightModifier |-> 8,  trees |-> 10, rocks |-> 10, flowers |-> 20],
     PLAINS          |-> [heightModifier |-> 10, trees |-> 15, rocks |-> 5,  flowers |-> 40],
     FOREST          |-> [heightModifier |-> 11, trees |-> 60, rocks |-> 10, flowers |-> 30],
     RAINFOREST      |-> [heightModifier |-> 12, trees |-> 80, rocks |-> 5,  flowers |-> 50],
     MOUNTAINS       |-> [heightModifier |-> 18, trees |-> 20, rocks |-> 80, flowers |-> 10],
     SNOWY_MOUNTAINS |-> [heightModifier |-> 16, trees |-> 10, rocks |-> 70, flowers |-> 5],
     TUNDRA          |-> [heightModifier |-> 9,  trees |-> 5,  rocks |-> 30, flowers |-> 10],
     SWAMP           |-> [heightModifier |-> 6,  trees |-> 40, rocks |-> 10, flowers |-> 20],
     BEACH           |-> [heightModifier |-> 2,  trees |-> 5,  rocks |-> 10, flowers |-> 10]]

\* temperature, moisture and slope in tenths
getBiome(temperature, moisture, height, slope) ==
    LET isCliff == slope > 8
        isBeach == height <= BEACH_LEVEL + 2 /\ height > WATER_LEVEL - 1
    IN  IF isBeach THEN "BEACH"
        ELSE IF isCliff /\ height > 80 THEN "MOUNTAINS"
        ELSE IF temperature > 7 THEN (IF moisture < 3 THEN "DESERT" ELSE "SAVANNA")
        ELSE IF temperature < 2 THEN (IF height > 70 THEN "SNOWY_MOUNTAINS" ELSE "TUNDRA")
        ELSE IF temperature < 4 THEN (IF height > 90 THEN "MOUNTAINS" ELSE "PLAINS")
        ELSE IF moisture > 7 THEN (IF temperature > 5 THEN "RAINFOREST" ELSE "FOREST")
        ELSE IF moisture > 6 THEN (IF height < WATER_LEVEL + 5 THEN "SWAMP" ELSE "FOREST")
        ELSE "PLAINS"

\* The layered noise sum is one noise-derived value; the river carving, the
\* minimum height and the final Math.floor are the code's.
getHeight(s, x, z, biome) ==
    LET height == terrainNoise(s, x, z, BIOMES[biome].heightModifier)
        carved == IF riverNoise(s, x, z) /\ height > WATER_LEVEL
                  THEN Min(height, WATER_LEVEL + 1) ELSE height
    IN  Max(BASE_HEIGHT, carved)

shouldGenerateCave(s, x, y, z) == caveNoise(s, x, y, z)

(***************************************************************************)
(* Secondary features.  Math.random() is a draw r in 0..11, so that        *)
(* Math.floor(Math.random() * n) is r \div (12 / n) for n in {2, 3, 4}.    *)
(***************************************************************************)

\* blocks with the block at (x, y, z) replaced by block
withBlock(blocks, x, y, z, block) ==
    [bx \in DOMAIN blocks |-> [by \in DOMAIN blocks[bx] |-> [bz \in DOMAIN blocks[bx][by] |->
        IF bx = x /\ by = y /\ bz = z THEN block ELSE blocks[bx][by][bz]]]]

\* a height map (or any per-column map) with the entry of (x, z) replaced
withColumn(map, x, z, value) ==
    [mx \in DOMAIN map |-> [mz \in DOMAIN map[mx] |->
        IF mx = x /\ mz = z THEN value ELSE map[mx][mz]]]

retyped(block, type) ==
    [type |-> type, position |-> block.position, metadata |-> block.metadata]

\* blocks[x][y][z].type = type
setType(blocks, x, y, z, type) ==
    withBlock(blocks, x, y, z, retyped(blocks[x][y][z], type))

generateTree(blocks, x, y, z, biome, r) ==
    IF x < 2 \/ x > CHUNK_SIZE - 3 \/ z < 2 \/ z > CHUNK_SIZE - 3 THEN blocks
    ELSE
    LET height == IF biome = "RAINFOREST" THEN 8 + (r \div 3) ELSE 5 + (r \div 4)
        leafStart == height - 3
        leafRadius == IF biome = "RAINFOREST" THEN 3 ELSE 2
        isTrunk(lx, ly, lz) ==
            lx = x /\ lz = z /\ ly >= y /\ ly < y + height
        radius(dy) == IF dy = height THEN 1 ELSE leafRadius
        isLeaf(lx, ly, lz) ==
            LET dy == ly - y
                dx == lx - x
                dz == lz - z
            IN  /\ dy >= leafStart /\ dy < height + 1
                /\ dx >= -radius(dy) /\ dx <= radius(dy)
                /\ dz >= -radius(dy) /\ dz <= radius(dy)
                \* Math.sqrt(dx*dx + dz*dz) <= radius + 0.5
                /\ 4 * (dx * dx + dz * dz) <= (2 * radius(dy) + 1) * (2 * radius(dy) + 1)
    IN  [lx \in Local |-> [ly \in Heights |-> [lz \in Local |->
            LET block == blocks[lx][ly][lz]
            IN  IF isTrunk(lx, ly, lz) THEN retyped(block, "WOOD")
                ELSE IF isLeaf(lx, ly, lz) /\ block.type = "AIR"
                THEN retyped(block, "LEAVES")
                ELSE block]]]

generateRock(blocks, x, y, z, r) ==
    IF x < 1 \/ x > CHUNK_SIZE - 2 \/ z < 1 \/ z > CHUNK_SIZE - 2 THEN blocks
    ELSE
    LET size == 1 + (r \div 6)
        inRock(rx, ry, rz) ==
            LET dx == rx - x
                dy == ry - y
                dz == rz - z
            IN  /\ dx >= -size /\ dx <= size
                /\ dy >= 0 /\ dy < size
                /\ dz >= -size /\ dz <= size
                \* Math.sqrt(dx*dx + dy*dy + dz*dz) <= size
                /\ dx * dx + dy * dy + dz * dz <= size * size
    IN  [rx \in Local |-> [ry \in Heights |-> [rz \in Local |->
            LET block == blocks[rx][ry][rz]
            IN  IF inRock(rx, ry, rz) /\ block.type = "AIR"
                THEN retyped(block, "STONE")
                ELSE block]]]

generateFlower(blocks, x, y, z) ==
    IF y < 0 \/ y >= WORLD_HEIGHT THEN blocks
    ELSE setType(blocks, x, y, z, "GRASS")

RECURSIVE surfaceScan(_, _, _, _)
\* while (surfaceY > 0 && blocks[x][surfaceY][z].type === 'AIR') surfaceY--
surfaceScan(blocks, x, z, surfaceY) ==
    IF surfaceY > 0 /\ blocks[x][surfaceY][z].type = "AIR"
    THEN surfaceScan(blocks, x, z, surfaceY - 1)
    ELSE surfaceY

\* the r-th Math.random() tape: the draw used at column i
Draw(r, i) == (r + 5 * i) % 12

\* the body of the x/z double loop of generateFeatures at column (x, z)
columnFeatures(s, blocks, biomeMap, position, x, z, r) ==
    LET biome == biomeMap[x][z]
        biomeParams == BIOMES[biome]
        surfaceY == surfaceScan(blocks, x, z, WORLD_HEIGHT - 1)
        fn == featureNoise(s, position[1] * CHUNK_SIZE + x, surfaceY,
                           position[2] * CHUNK_SIZE + z)
    IN  IF blocks[x][surfaceY][z].type = "WATER" THEN blocks
        ELSE IF fn > 100 - biomeParams.trees
        THEN generateTree(blocks, x, surfaceY + 1, z, biome, Draw(r, x * CHUNK_SIZE + z))
        ELSE IF fn > 100 - biomeParams.rocks - biomeParams.trees
        THEN generateRock(blocks, x, surfaceY + 1, z, Draw(r, x * CHUNK_SIZE + z))
        ELSE IF fn > 100 - biomeParams.flowers - biomeParams.rocks - biomeParams.trees
        THEN generateFlower(blocks, x, surfaceY + 1, z)
        ELSE blocks

RECURSIVE rowFeatures(_, _, _, _, _, _, _)
\* the inner loop: for (let z = 0; z < CHUNK_SIZE; z++), from z on
rowFeatures(s, blocks, biomeMap, position, x, z, r) ==
    IF z >= CHUNK_SIZE THEN blocks
    ELSE LET next == columnFeatures(s, blocks, biomeMap, position, x, z, r)
         IN  IF next = blocks
             THEN rowFeatures(s, blocks, biomeMap, position, x, z + 1, r)
             ELSE rowFeatures(s, next, biomeMap, position, x, z + 1, r)

RECURSIVE featuresFrom(_, _, _, _, _, _)
\* the outer loop: for (let x = 0; x < CHUNK_SIZE; x++), from x on
featuresFrom(s, blocks, biomeMap, position, x, r) ==
    IF x >= CHUNK_SIZE THEN blocks
    ELSE LET next == rowFeatures(s, blocks, biomeMap, position, x, 0, r)
         IN  IF next = blocks
             THEN featuresFrom(s, blocks, biomeMap, position, x + 1, r)
             ELSE featuresFrom(s, next, biomeMap, position, x + 1, r)

generateFeatures(s, blocks, biomeMap, position, r) ==
    featuresFrom(s, blocks, biomeMap, position, 0, r)

(***************************************************************************)
(* generateChunk: the Chunk object it builds                               *)
(***************************************************************************)
terrainBlockType(s, worldX, y, worldZ, height, biome) ==
    IF shouldGenerateCave(s, worldX, y, worldZ) THEN "AIR"
    ELSE IF y = 0 THEN "STONE"
    ELSE IF y < height - DIRT_DEPTH THEN "STONE"
    ELSE IF y < height THEN "DIRT"
    ELSE IF y = height THEN
        (IF biome = "DESERT" THEN "SAND"
         ELSE IF biome = "TUNDRA"
              THEN (IF height <= WATER_LEVEL + 1 THEN "DIRT" ELSE "GRASS")
              ELSE (IF height <= WATER_LEVEL + 1 THEN "SAND" ELSE "GRASS"))
    ELSE IF y <= WATER_LEVEL /\ y > height THEN "WATER"
    ELSE "AIR"

buildChunk(s, chunkX, chunkZ, r) ==
    LET worldX(localX) == chunkX * CHUNK_SIZE + localX
        worldZ(localZ) == chunkZ * CHUNK_SIZE + localZ
        temperatureMap == [localX \in Local |-> [localZ \in Local |->
                              temperatureNoise(s, worldX(localX), worldZ(localZ))]]
        moistureMap == [localX \in Local |-> [localZ \in Local |->
                              moistureNoise(s, worldX(localX), worldZ(localZ))]]
        biomeMap == [localX \in Local |-> [localZ \in Local |->
                        getBiome(temperatureMap[localX][localZ],
                                 moistureMap[localX][localZ], 0, 0)]]
        heightMap == [localX \in Local |-> [localZ \in Local |->
                        getHeight(s, worldX(localX), worldZ(localZ), biomeMap[localX][localZ])]]
        terrain == [localX \in Local |-> [y \in Heights |-> [localZ \in Local |->
                        [type |-> terrainBlockType(s, worldX(localX), y, worldZ(localZ),
                                     heightMap[localX][localZ], biomeMap[localX][localZ]),
                         position |-> <<localX, y, localZ>>,
                         metadata |-> <<temperatureMap[localX][localZ],
                                        moistureMap[localX][localZ]>>]]]]
    IN  [position |-> <<chunkX, chunkZ>>,
         blocks |-> generateFeatures(s, terrain, biomeMap, <<chunkX, chunkZ>>, r),
         isDirty |-> FALSE,
         isGenerated |-> TRUE,
         heightMap |-> heightMap,
         biomeMap |-> biomeMap]

\* The chunks generateChunk builds, tabulated once for every noise seed, chunk
\* coordinate in reach of the inputs and Math.random() tape.
Seeds == 0 .. (NumSeeds - 1)
RandomTapes == {0, 7}
GenCoords == (-1 - ViewDistance) .. ViewDistance
ChunkTable ==
    Evaluated([s \in Seeds, chunkX \in GenCoords, chunkZ \in GenCoords, r \in RandomTapes |->
                  buildChunk(s, chunkX, chunkZ, r)])

newChunk(chunkX, chunkZ, r) == ChunkTable[seed, chunkX, chunkZ, r]


(***************************************************************************)
(* WorldGenerator.  A world value w is [heap, chunks]: the Chunk objects   *)
(* and the LRU cache that refers to them.  Every method is an operator     *)
(* from a world (and its arguments) to [w |-> the world after the call,    *)
(* ret |-> the value returned].                                            *)
(***************************************************************************)
\* the dispose callback of the chunk cache
disposeChunk(chunk) ==
    [chunk EXCEPT !.blocks = <<>>, !.heightMap = <<>>, !.biomeMap = <<>>,
                  !.isDirty = FALSE, !.isGenerated = FALSE]

cacheIndex(cache, key) ==
    IF \E i \in 1 .. Len(cache) : cache[i].key = key
    THEN CHOOSE i \in 1 .. Len(cache) : cache[i].key = key
    ELSE 0

removeAt(seq, i) == SubSeq(seq, 1, i - 1) \o SubSeq(seq, i + 1, Len(seq))

cacheGetNoRefresh(w, key) ==
    LET i == cacheIndex(w.chunks, key)
    IN  IF i = 0 THEN [w |-> w, ret |-> Undefined]
        ELSE [w |-> w, ret |-> w.chunks[i].value]

\* LRUCache.get: a hit becomes the most recently used entry
cacheGet(w, key) ==
    LET i == cacheIndex(w.chunks, key)
    IN  IF i = 0 THEN [w |-> w, ret |-> Undefined]
        ELSE [w |-> [w EXCEPT !.chunks = Append(removeAt(w.chunks, i), w.chunks[i])],
              ret |-> w.chunks[i].value]

\* LRUCache.set: a replaced value and an evicted value are disposed
cacheSet(w, key, value) ==
    LET i == cacheIndex(w.chunks, key)
        entry == [key |-> key, value |-> value]
    IN  IF i # 0
        THEN LET old == w.chunks[i].value
             IN  [heap |-> IF old # value
                           THEN [w.heap EXCEPT ![old] = disposeChunk(@)]
                           ELSE w.heap,
                  chunks |-> Append(removeAt(w.chunks, i), entry)]
        ELSE IF Len(w.chunks) >= CACHE_SIZE
        THEN [heap |-> [w.heap EXCEPT ![w.chunks[1].value] = disposeChunk(@)],
              chunks |-> Append(Tail(w.chunks), entry)]
        ELSE [heap |-> w.heap, chunks |-> Append(w.chunks, entry)]

\* generateChunk: the new Chunk object is allocated, cached under its key and
\* returned
generateChunk(w, chunkX, chunkZ, r) ==
    [w |-> cacheSet([w EXCEPT !.heap = Append(w.heap, newChunk(chunkX, chunkZ, r))],
                    getChunkKey(chunkX, chunkZ), Len(w.heap) + 1),
     ret |-> Len(w.heap) + 1]

\* getChunk on a miss: this.chunks.set(key, newChunk); return newChunk
cachedAgain(gen, key) ==
    [w |-> cacheSet(gen.w, key, gen.ret), ret |-> gen.ret]

getChunkRegenerating(w, chunkX, chunkZ, r) == generateChunk(w, chunkX, chunkZ, r)
getChunk(w, chunkX, chunkZ, r) ==
    LET key == getChunkKey(chunkX, chunkZ)
        got == cacheGet(w, key)
    IN  \* !chunk || !chunk.blocks || !Array.isArray(chunk.blocks): blocks is
        \* always an array, and an empty array is truthy
        IF got.ret = Undefined
        THEN cachedAgain(generateChunk(got.w, chunkX, chunkZ, r), key)
        ELSE got

\* return chunk.blocks[localX][y][localZ], got being what getChunk returned
blockOf(got, localX, y, localZ) ==
    [w |-> got.w, ret |-> got.w.heap[got.ret].blocks[localX][y][localZ]]

getBlock(w, x, y, z, r) ==
    IF y < 0 \/ y >= WORLD_HEIGHT THEN [w |-> w, ret |-> Undefined]
    ELSE blockOf(getChunk(w, ChunkCoord(x), ChunkCoord(z), r),
                 LocalCoord(x), y, LocalCoord(z))

RECURSIVE rescanHeight(_, _, _, _, _)
\* for (ny = y; ny >= 0; ny--) if non-AIR { heightMap = ny; break }
rescanHeight(blocks, localX, localZ, ny, old) ==
    IF ny < 0 THEN old
    ELSE IF blocks[localX][ny][localZ].type # "AIR" THEN ny
    ELSE rescanHeight(blocks, localX, localZ, ny - 1, old)

\* the cell exists: chunk.blocks[localX] && chunk.blocks[localX][y] && ...[localZ]
hasCell(blocks, localX, y, localZ) ==
    /\ localX \in DOMAIN blocks
    /\ y \in DOMAIN blocks[localX]
    /\ localZ \in DOMAIN blocks[localX][y]

raisedHeightBroken(heightMap, localX, localZ, y) ==
    withColumn(heightMap, localX, localZ, heightMap[localX][localZ] + 1)
raisedHeight(heightMap, localX, localZ, y) ==
    withColumn(heightMap, localX, localZ, y)

\* the body of setBlock after const chunk = this.getChunk(chunkX, chunkZ),
\* got being what getChunk returned
writeBlock(got, x, y, z, type) ==
    LET id == got.ret
        chunk == got.w.heap[id]
        localX == LocalCoord(x)
        localZ == LocalCoord(z)
        blocks == withBlock(chunk.blocks, localX, y, localZ,
                      [type |-> type, position |-> <<x, y, z>>,
                       metadata |-> chunk.blocks[localX][y][localZ].metadata])
        heightMap ==
            IF type # "AIR" /\ y > chunk.heightMap[localX][localZ]
            THEN raisedHeight(chunk.heightMap, localX, localZ, y)
            ELSE IF type = "AIR" /\ y = chunk.heightMap[localX][localZ]
            THEN withColumn(chunk.heightMap, localX, localZ,
                     rescanHeight(blocks, localX, localZ, y,
                                  chunk.heightMap[localX][localZ]))
            ELSE chunk.heightMap
    IN  IF hasCell(chunk.blocks, localX, y, localZ)
        THEN [w |-> [got.w EXCEPT !.heap[id] =
                        [chunk EXCEPT !.blocks = blocks, !.isDirty = TRUE,
                                      !.heightMap = heightMap]],
              ret |-> Undefined]
        ELSE [w |-> got.w, ret |-> Undefined]

setBlockUnchecked(w, x, y, z, type, r) ==
    writeBlock(getChunk(w, ChunkCoord(x), ChunkCoord(z), r), x, y, z, type)
setBlock(w, x, y, z, type, r) ==
    IF y < 0 \/ y >= WORLD_HEIGHT THEN [w |-> w, ret |-> Undefined]
    ELSE writeBlock(getChunk(w, ChunkCoord(x), ChunkCoord(z), r), x, y, z, type)


(***************************************************************************)
(* ChunkManager: the worker pool.  A pool value p is [workerQueue,         *)
(* activeWorkerCount, inbox]; inbox[i] holds the messages posted to        *)
(* workers[i] that the worker has not taken yet.                           *)
(***************************************************************************)
Workers == 0 .. (MAX_CONCURRENT_WORKERS - 1)

\* workers/chunkWorker.ts: a worker takes the jobs posted to it in order and
\* ends each of them once, with one message or with an error
workerHasJob(boxes, i) == i \in DOMAIN boxes /\ boxes[i] # <<>>

RECURSIVE processWorkerQueueUnbounded(_)
processWorkerQueueUnbounded(p) ==
    IF Len(p.workerQueue) > 0
    THEN LET task == Head(p.workerQueue)
             count == p.activeWorkerCount + 1
             worker == count % MAX_CONCURRENT_WORKERS
         IN  processWorkerQueueUnbounded(
                 [workerQueue |-> Tail(p.workerQueue),
                  activeWorkerCount |-> count,
                  inbox |-> [p.inbox EXCEPT ![worker] = Append(@, task)]])
    ELSE p

RECURSIVE processWorkerQueueLifo(_)
processWorkerQueueLifo(p) ==
    IF p.activeWorkerCount < MAX_CONCURRENT_WORKERS /\ Len(p.workerQueue) > 0
    THEN LET task == p.workerQueue[Len(p.workerQueue)]
             count == p.activeWorkerCount + 1
             worker == count % MAX_CONCURRENT_WORKERS
         IN  processWorkerQueueLifo(
                 [workerQueue |-> SubSeq(p.workerQueue, 1, Len(p.workerQueue) - 1),
                  activeWorkerCount |-> count,
                  inbox |-> [p.inbox EXCEPT ![worker] = Append(@, task)]])
    ELSE p

RECURSIVE processWorkerQueue(_)
\* task.resolve is not part of the message and is dropped with the task
processWorkerQueue(p) ==
    IF p.activeWorkerCount < MAX_CONCURRENT_WORKERS /\ Len(p.workerQueue) > 0
    THEN LET task == Head(p.workerQueue)
             count == p.activeWorkerCount + 1
             worker == count % MAX_CONCURRENT_WORKERS
         IN  processWorkerQueue(
                 [workerQueue |-> Tail(p.workerQueue),
                  activeWorkerCount |-> count,
                  inbox |-> [p.inbox EXCEPT ![worker] = Append(@, task)]])
    ELSE p

snapshotUntranslated(chunk) == chunk

\* the chunk copy generateChunkMesh puts into the task: the chunk position in
\* world units, every block with its world position
snapshot(chunk) ==
    [chunk EXCEPT
        !.position = <<chunk.position[1] * CHUNK_SIZE, chunk.position[2] * CHUNK_SIZE>>,
        !.blocks = [x \in DOMAIN chunk.blocks |->
                     [y \in DOMAIN chunk.blocks[x] |->
                       [z \in DOMAIN chunk.blocks[x][y] |->
                         [type |-> chunk.blocks[x][y][z].type,
                          position |-> <<chunk.position[1] * CHUNK_SIZE + x, y,
                                         chunk.position[2] * CHUNK_SIZE + z>>,
                          metadata |-> chunk.blocks[x][y][z].metadata]]]]]

\* generateChunkMesh: the promise executor pushes the task and runs the queue.
\* id, key and call identify the job and the updateChunks call awaiting it.
generateChunkMesh(p, chunk, lodLevel, id, key, call) ==
    processWorkerQueue(
        [p EXCEPT !.workerQueue = Append(@,
            [id |-> id, key |-> key, call |-> call,
             chunk |-> snapshot(chunk), lodLevel |-> lodLevel])])


(***************************************************************************)
(* ChunkManager: LOD, priority and updateChunks.  Positions are integers;  *)
(* a distance d is carried as 4 * d * d (the chunk centre has half-integer *)
(* coordinates), so every comparison of the code is exact.                 *)
(***************************************************************************)
LOD_DISTANCES == <<32, 64, 128, 256>>
PRIORITY_DISTANCE == 3

RECURSIVE lodFromStrict(_, _)
lodFromStrict(i, d4) ==
    IF i > Len(LOD_DISTANCES) THEN Len(LOD_DISTANCES)
    ELSE IF d4 < 4 * LOD_DISTANCES[i] * LOD_DISTANCES[i] THEN i - 1
    ELSE lodFromStrict(i + 1, d4)

RECURSIVE lodFrom(_, _)
\* for (let i = 0; i < LOD_DISTANCES.length; i++) if (distance <=
\* LOD_DISTANCES[i]) return i, from the 1-based index i on
lodFrom(i, d4) ==
    IF i > Len(LOD_DISTANCES) THEN Len(LOD_DISTANCES)
    ELSE IF d4 <= 4 * LOD_DISTANCES[i] * LOD_DISTANCES[i] THEN i - 1
    ELSE lodFrom(i + 1, d4)

getLODLevelStrict(d4) == lodFromStrict(1, d4)
\* getLODLevel, on d4 = 4 * distance^2; the level is the 0-based index
getLODLevel(d4) == lodFrom(1, d4)

\* playerPosition.distanceTo(chunkCenter), as 4 * distance^2
distance4(chunkX, chunkZ, player) ==
    LET dx == 2 * chunkX * CHUNK_SIZE + CHUNK_SIZE - 2 * player[1]
        dy == 0 - 2 * player[2]
        dz == 2 * chunkZ * CHUNK_SIZE + CHUNK_SIZE - 2 * player[3]
    IN  dx * dx + dy * dy + dz * dz

\* angle < VIEW_CONE_ANGLE, i.e. toChunk . cameraDirection > cos(pi / 3) = 1/2,
\* for a horizontal unit cameraDirection along an axis
inViewCone(chunkX, chunkZ, player, cameraDirection) ==
    LET dx == 2 * chunkX * CHUNK_SIZE + CHUNK_SIZE - 2 * player[1]
        dz == 2 * chunkZ * CHUNK_SIZE + CHUNK_SIZE - 2 * player[3]
        dot == dx * cameraDirection[1] + dz * cameraDirection[2]
    IN  dot > 0 /\ 4 * dot * dot > distance4(chunkX, chunkZ, player)

\* priority is carried doubled: 1.0 -> 2, 1.5 -> 3, 2.0 -> 4, 3.0 -> 6
calculateChunkPriority(chunkX, chunkZ, player, cameraDirection) ==
    LET d4 == distance4(chunkX, chunkZ, player)
        near == d4 < 4 * (PRIORITY_DISTANCE * CHUNK_SIZE) * (PRIORITY_DISTANCE * CHUNK_SIZE)
        base == IF near THEN 4 ELSE 2
    IN  [key |-> getChunkKey(chunkX, chunkZ),
         priority |-> IF inViewCone(chunkX, chunkZ, player, cameraDirection)
                      THEN (base * 3) \div 2 ELSE base,
         distance |-> d4,
         lodLevel |-> getLODLevel(d4)]

\* frustum.intersectsBox(chunkBox): the frustum comes from the camera
\* matrices; it is one of a few shapes around the player's chunk
isChunkVisible(frustum, x, z, cameraDirection) ==
    CASE frustum = "all" -> TRUE
      [] frustum = "ahead" -> x * cameraDirection[1] + z * cameraDirection[2] > 0
      [] frustum = "here" -> x = 0 /\ z = 0

RECURSIVE insertByPriority(_, _)
\* position of e in a list sorted by descending priority, after its equals
insertByPriority(sorted, e) ==
    IF sorted = <<>> THEN <<e>>
    ELSE IF Head(sorted).priority >= e.priority
         THEN <<Head(sorted)>> \o insertByPriority(Tail(sorted), e)
         ELSE <<e>> \o sorted

sortByPriorityLeavingOrder(list, sorted) == list

RECURSIVE sortByPriority(_, _)
\* chunkPriorities.sort((a, b) => b.priority - a.priority): stable
sortByPriority(list, sorted) ==
    IF list = <<>> THEN sorted
    ELSE sortByPriority(Tail(list), insertByPriority(sorted, Head(list)))

RECURSIVE chunkPrioritiesFrom(_, _, _, _)
\* the x/z double loop over the view square, from offset index i on
chunkPrioritiesFrom(i, player, cameraDirection, frustum) ==
    LET side == 2 * ViewDistance + 1
        x == (i \div side) - ViewDistance
        z == (i % side) - ViewDistance
        chunkX == ChunkCoord(player[1]) + x
        chunkZ == ChunkCoord(player[3]) + z
    IN  IF i >= side * side THEN <<>>
        ELSE (IF isChunkVisible(frustum, x, z, cameraDirection)
              THEN <<calculateChunkPriority(chunkX, chunkZ, player, cameraDirection)>>
              ELSE <<>>)
             \o chunkPrioritiesFrom(i + 1, player, cameraDirection, frustum)

\* the mesh cached under key in chunkPool, or Undefined
meshIndex(pool, key) == cacheIndex(pool, key)

meshNeededIgnoringDirty(pool, i, lodLevel, isDirty) ==
    i = 0 \/ pool[i].value.lodLevel # lodLevel
\* !meshData || meshData.lodLevel !== lodLevel || chunk.isDirty, with i the
\* index of meshData in the pool (0: none)
meshNeeded(pool, i, lodLevel, isDirty) ==
    \/ i = 0
    \/ pool[i].value.lodLevel # lodLevel
    \/ isDirty

\* let chunk = this.activeChunks.get(key); if (!chunk) chunk = generateChunk
activeOrGenerated(st, key, r) ==
    IF key \in DOMAIN st.activeChunks
    THEN [w |-> st.w, ret |-> st.activeChunks[key]]
    ELSE generateChunk(st.w, key[1], key[2], r)

\* geometry.dispose() raises an exception on this geometry
disposeThrows(geometry) == "throws" \in DOMAIN geometry /\ geometry.throws

\* one iteration of the priority walk of updateChunks, with
\* st = [w, activeChunks, chunkPool, p, processedCount, jobs, thrown] and got
\* the chunk of the key; thrown: an exception has left the walk
processChunk(st, key, lodLevel, got, call) ==
    LET known == key \in DOMAIN st.activeChunks
        w1 == got.w
        chunk == got.ret
        active1 == IF known THEN st.activeChunks
                   ELSE [k \in DOMAIN st.activeChunks \cup {key} |->
                            IF k = key THEN chunk ELSE st.activeChunks[k]]
        i == meshIndex(st.chunkPool, key)
        \* chunkPool.get(key) makes a hit the most recently used entry
        pool1 == IF i = 0 THEN st.chunkPool
                 ELSE Append(removeAt(st.chunkPool, i), st.chunkPool[i])
        needsMesh == meshNeeded(st.chunkPool, i, lodLevel, w1.heap[chunk].isDirty)
        \* if (meshData) meshData.geometry.dispose() stands outside any try
        thrown == needsMesh /\ i # 0 /\ disposeThrows(st.chunkPool[i].value.geometry)
        \* meshData.geometry.dispose() on the stale mesh, which stays cached
        pool2 == IF needsMesh /\ i # 0 /\ ~thrown
                 THEN [pool1 EXCEPT ![Len(pool1)].value.geometry.disposed = TRUE]
                 ELSE pool1
        submit == needsMesh /\ ~thrown /\ st.processedCount < MAX_CONCURRENT_WORKERS
        id == <<call, st.processedCount + 1>>
        next == [w |-> w1,
                 activeChunks |-> active1,
                 chunkPool |-> pool2,
                 p |-> IF submit
                       THEN generateChunkMesh(st.p, w1.heap[chunk], lodLevel, id, key, call)
                       ELSE st.p,
                 processedCount |-> IF submit THEN st.processedCount + 1
                                    ELSE st.processedCount,
                 jobs |-> IF submit THEN st.jobs \cup {id} ELSE st.jobs,
                 thrown |-> thrown]
    IN  next

RECURSIVE processChunks(_, _, _, _)
\* the priority walk of updateChunks over list; the break that ends an
\* iteration is the test that opens the next one (processedCount starts at 0)
processChunks(st, list, call, r) ==
    IF list = <<>> \/ st.thrown \/ st.processedCount >= MAX_CONCURRENT_WORKERS THEN st
    ELSE processChunks(
             processChunk(st, Head(list).key, Head(list).lodLevel,
                          activeOrGenerated(st, Head(list).key, r), call),
             Tail(list), call, r)


(***************************************************************************)
(* ChunkManager.setBlock                                                   *)
(***************************************************************************)
\* the neighbours the border tests of setBlock select
borderNeighbours(chunkX, chunkZ, localX, localZ) ==
    (IF localX = 0 THEN {getChunkKey(chunkX - 1, chunkZ)}
     ELSE IF localX = CHUNK_SIZE - 1 THEN {getChunkKey(chunkX + 1, chunkZ)}
     ELSE {})
    \cup
    (IF localZ = 0 THEN {getChunkKey(chunkX, chunkZ - 1)}
     ELSE IF localZ = CHUNK_SIZE - 1 THEN {getChunkKey(chunkX, chunkZ + 1)}
     ELSE {})

\* const chunk = this.activeChunks.get(key); if (chunk) chunk.isDirty = true
markOne(objects, active, key) ==
    IF key \in DOMAIN active
    THEN [objects EXCEPT ![active[key]].isDirty = TRUE]
    ELSE objects

RECURSIVE markAll(_, _, _)
markAll(objects, active, keys) ==
    IF keys = {} THEN objects
    ELSE LET key == CHOOSE k \in keys : TRUE
         IN  markAll(markOne(objects, active, key), active, keys \ {key})

markDirty(w1, active, keys) == [w1 EXCEPT !.heap = markAll(w1.heap, active, keys)]

\* w1 is the world after this.worldGen.setBlock(x, y, z, type)
cmSetBlock(w, active, x, y, z, type, r) ==
    LET chunkX == ChunkCoord(x)
        chunkZ == ChunkCoord(z)
        key == getChunkKey(chunkX, chunkZ)
        localX == x - chunkX * CHUNK_SIZE
        localZ == z - chunkZ * CHUNK_SIZE
    IN  markDirty(setBlock(w, x, y, z, type, r).w, active,
                  {key} \cup borderNeighbours(chunkX, chunkZ, localX, localZ))

\* getChunkMesh: the geometry cached under the key, or Undefined
getChunkMesh(pool, x, z) ==
    LET i == meshIndex(pool, getChunkKey(x, z))
    IN  IF i = 0 THEN [pool |-> pool, ret |-> Undefined]
        ELSE [pool |-> Append(removeAt(pool, i), pool[i]),
              ret |-> pool[i].value.geometry]

(***************************************************************************)
(* ChunkManager.dispose.  A manager value m is [chunkPool, activeChunks,   *)
(* workers, terminated], workers being the inboxes of this.workers.        *)
(***************************************************************************)
cmDisposeKeepingWorkers(m) ==
    [chunkPool |-> <<>>,
     activeChunks |-> <<>>,
     workers |-> m.workers,
     terminated |-> m.terminated \cup DOMAIN m.workers]

\* every cached geometry is disposed and its entry deleted, the cache is
\* replaced by an empty one, activeChunks is cleared, every worker of the list
\* is terminated and the list is emptied; the errors of geometry.dispose() and
\* worker.terminate() are caught
cmDispose(m) ==
    [chunkPool |-> <<>>,
     activeChunks |-> <<>>,
     workers |-> <<>>,
     terminated |-> m.terminated \cup DOMAIN m.workers]

(***************************************************************************)
(* State machine                                                           *)
(***************************************************************************)
MaxOps == 2
MaxTicks == 2
MaxFailures == 1

World == [heap |-> heap, chunks |-> chunks]
Pool == [workerQueue |-> workerQueue, activeWorkerCount |-> activeWorkerCount,
         inbox |-> inbox]

Manager == [chunkPool |-> chunkPool, activeChunks |-> activeChunks,
            workers |-> inbox, terminated |-> terminated]

Call(op, args, ret) == [op |-> op, args |-> args, ret |-> ret]

InitCommon ==
    /\ heap = <<>>
    /\ chunks = <<>>
    /\ activeChunks = <<>>
    /\ chunkPool = <<>>
    /\ workerQueue = <<>>
    /\ activeWorkerCount = 0
    /\ inbox = [i \in Workers |-> <<>>]
    /\ terminated = {}
    /\ calls = <<>>
    /\ answered = {}
    /\ failed = {}
    /\ last = Call("new", <<>>, Undefined)
    /\ ops = 0

Init ==
    /\ seed \in Seeds
    /\ InitCommon

SetWorld(w) ==
    /\ heap' = w.heap
    /\ chunks' = w.chunks

\* a WorldGenerator method returns: res = [w, ret]
Returned(op, args, res) ==
    /\ SetWorld(res.w)
    /\ last' = Call(op, args, res.ret)

\* ---- WorldGenerator, called by the game (World, Player) ----------------
WGGenerateChunk(chunkX, chunkZ, r) ==
    /\ ops < MaxOps
    /\ Returned("generateChunk", <<chunkX, chunkZ>>, generateChunk(World, chunkX, chunkZ, r))
    /\ ops' = ops + 1
    /\ UNCHANGED <<seed, activeChunks, chunkPool, poolVars>>

WGGetChunk(chunkX, chunkZ, r) ==
    /\ ops < MaxOps
    /\ Returned("getChunk", <<chunkX, chunkZ>>, getChunk(World, chunkX, chunkZ, r))
    /\ ops' = ops + 1
    /\ UNCHANGED <<seed, activeChunks, chunkPool, poolVars>>

WGGetBlock(x, y, z, r) ==
    /\ ops < MaxOps
    /\ Returned("getBlock", <<x, y, z>>, getBlock(World, x, y, z, r))
    /\ ops' = ops + 1
    /\ UNCHANGED <<seed, activeChunks, chunkPool, poolVars>>

WGSetBlock(x, y, z, type, r) ==
    /\ ops < MaxOps
    /\ Returned("setBlock", <<x, y, z, type>>, setBlock(World, x, y, z, type, r))
    /\ ops' = ops + 1
    /\ UNCHANGED <<seed, activeChunks, chunkPool, poolVars>>

\* ---- ChunkManager -------------------------------------------------------
CMSetBlock(x, y, z, type, r) ==
    /\ ops < MaxOps
    /\ SetWorld(cmSetBlock(World, activeChunks, x, y, z, type, r))
    /\ last' = Call("ChunkManager.setBlock", <<x, y, z, type>>, Undefined)
    /\ ops' = ops + 1
    /\ UNCHANGED <<seed, activeChunks, chunkPool, poolVars>>

CMGetChunkMesh(x, z) ==
    /\ ops < MaxOps
    /\ LET res == getChunkMesh(chunkPool, x, z)
       IN  /\ chunkPool' = res.pool
           /\ last' = Call("getChunkMesh", <<x, z>>, res.ret)
    /\ ops' = ops + 1
    /\ UNCHANGED <<worldVars, activeChunks, poolVars>>

SetPool(p) ==
    /\ workerQueue' = p.workerQueue
    /\ activeWorkerCount' = p.activeWorkerCount
    /\ inbox' = p.inbox

\* updateChunks reaches await Promise.all(updatePromises) with the walk's
\* outcome st, or is left by the exception of the walk
Awaiting(st) ==
    /\ SetWorld(st.w)
    /\ activeChunks' = st.activeChunks
    /\ chunkPool' = st.chunkPool
    /\ SetPool(st.p)
    /\ calls' = Append(calls, [jobs |-> st.jobs, done |-> st.jobs = {} \/ st.thrown])

\* updateChunks up to its await: the frustum, the priorities, the walk.  The
\* call completes when Promise.all(updatePromises) does: at once when it
\* issued no job, and otherwise when the promises of its jobs resolve, which
\* no handler of the class does (task.resolve is never called).
CMUpdateChunks(player, cameraDirection, frustum, r) ==
    /\ Len(calls) < MaxTicks
    /\ Awaiting(processChunks(
                     [w |-> World, activeChunks |-> activeChunks,
                      chunkPool |-> chunkPool, p |-> Pool,
                      processedCount |-> 0, jobs |-> {}, thrown |-> FALSE],
                     sortByPriority(
                         chunkPrioritiesFrom(0, player, cameraDirection, frustum), <<>>),
                     Len(calls) + 1, r))
    /\ last' = Call("updateChunks", <<player, cameraDirection, frustum>>, Undefined)
    /\ UNCHANGED <<seed, terminated, answered, failed, ops>>

\* dispose returns with the manager m; workerQueue and activeWorkerCount are
\* not touched
Disposed(m) ==
    /\ chunkPool' = m.chunkPool
    /\ activeChunks' = m.activeChunks
    /\ inbox' = m.workers
    /\ terminated' = m.terminated

CMDispose ==
    /\ ops < MaxOps
    /\ Disposed(cmDispose(Manager))
    /\ last' = Call("dispose", <<>>, Undefined)
    /\ ops' = ops + 1
    /\ UNCHANGED <<worldVars, workerQueue, activeWorkerCount, calls, answered, failed>>

JobInfo(task) == [id |-> task.id, key |-> task.key, lodLevel |-> task.lodLevel,
                  call |-> task.call]

\* worker.onmessage for a well-formed result: handleWorkerMessage builds a
\* geometry that the handler drops, the slot is released, the queue runs
WorkerReply(i) ==
    /\ workerHasJob(inbox, i)
    /\ SetPool(processWorkerQueue(
                 [workerQueue |-> workerQueue,
                  activeWorkerCount |-> activeWorkerCount - 1,
                  inbox |-> [inbox EXCEPT ![i] = Tail(@)]]))
    /\ answered' = answered \cup {JobInfo(Head(inbox[i]))}
    /\ UNCHANGED <<worldVars, activeChunks, chunkPool, terminated, calls, failed, last, ops>>

\* worker.onmessage for data that is no WorkerMeshData.  When the data is no
\* object at all, handleWorkerMessage throws on meshData.vertices and the
\* handler ends there; otherwise the attributes are built from undefined
\* arrays and the handler goes on.
WorkerMalformed(i, throws) ==
    /\ workerHasJob(inbox, i)
    /\ Cardinality(failed) < MaxFailures
    /\ IF throws
       THEN SetPool([workerQueue |-> workerQueue,
                     activeWorkerCount |-> activeWorkerCount,
                     inbox |-> [inbox EXCEPT ![i] = Tail(@)]])
       ELSE SetPool(processWorkerQueue(
                     [workerQueue |-> workerQueue,
                      activeWorkerCount |-> activeWorkerCount - 1,
                      inbox |-> [inbox EXCEPT ![i] = Tail(@)]]))
    /\ failed' = failed \cup {JobInfo(Head(inbox[i]))}
    /\ UNCHANGED <<worldVars, activeChunks, chunkPool, terminated, calls, answered, last,
                   ops>>

\* the worker fails on the job: an error event on the Worker, for which
\* initializeWorkers installs no handler
WorkerCrash(i) ==
    /\ workerHasJob(inbox, i)
    /\ Cardinality(failed) < MaxFailures
    /\ inbox' = [inbox EXCEPT ![i] = Tail(@)]
    /\ failed' = failed \cup {JobInfo(Head(inbox[i]))}
    /\ UNCHANGED <<worldVars, activeChunks, chunkPool, workerQueue, activeWorkerCount,
                   terminated, calls, answered, last, ops>>


(***************************************************************************)
(* Inputs                                                                  *)
(***************************************************************************)
\* chunks asked for by coordinate, negative coordinates included
WorldChunks == {<<-1, 0>>, <<0, -1>>}
\* block reads: inside the world, below it, above it
ReadInputs == {<<-1, 2, 2>>, <<2, -1, -1>>, <<2, WORLD_HEIGHT, 2>>}
\* edited columns (x, z): interior and border cells on both sides of 0
EditColumns == {<<-1, 2>>, <<2, -1>>, <<-CHUNK_SIZE, 0>>}
\* edited heights: below the world, inside it, its top layer, above it
EditYs == {-1, 1, 3, WORLD_HEIGHT - 1, WORLD_HEIGHT}
EditTypes == {"AIR", "STONE"}

\* the camera and player of a tick, and the Math.random() tape it meets
Ticks ==
    {[player |-> <<2, 3, 2>>, cameraDirection |-> <<1, 0>>, frustum |-> "all", r |-> 0],
     [player |-> <<2, 3, 2>>, cameraDirection |-> <<1, 0>>, frustum |-> "here", r |-> 7],
     [player |-> <<-1, 40, 2>>, cameraDirection |-> <<0, -1>>, frustum |-> "ahead", r |-> 0]}

\* columns edited through the ChunkManager: a corner cell, a +x border cell of
\* a chunk with negative coordinates, an interior cell, interior cells of
\* further chunks
ManagerColumns == {<<0, 0>>, <<-1, 2>>, <<2, 2>>, <<2, -3>>}
ManagerYs == {-1, 1}
MeshKeys == {<<0, 0>>}

\* the WorldGenerator used on its own
NextWorld ==
    \/ \E c \in WorldChunks, r \in RandomTapes : WGGenerateChunk(c[1], c[2], r)
    \/ \E c \in WorldChunks, r \in RandomTapes : WGGetChunk(c[1], c[2], r)
    \/ \E b \in ReadInputs, r \in RandomTapes : WGGetBlock(b[1], b[2], b[3], r)
    \/ \E c \in EditColumns, y \in EditYs, type \in EditTypes, r \in RandomTapes :
          WGSetBlock(c[1], y, c[2], type, r)

\* ticks, the workers and the mesh cache
NextPool ==
    \/ \E t \in Ticks : CMUpdateChunks(t.player, t.cameraDirection, t.frustum, t.r)
    \/ \E k \in MeshKeys : CMGetChunkMesh(k[1], k[2])
    \/ \E i \in Workers : WorkerReply(i)
    \/ \E i \in Workers, throws \in BOOLEAN : WorkerMalformed(i, throws)
    \/ \E i \in Workers : WorkerCrash(i)

\* ticks and edits through the ChunkManager
NextEdit ==
    \/ \E t \in Ticks : CMUpdateChunks(t.player, t.cameraDirection, t.frustum, t.r)
    \/ \E c \in ManagerColumns, y \in ManagerYs, type \in EditTypes, r \in RandomTapes :
          CMSetBlock(c[1], y, c[2], type, r)

\* ticks and worker replies until the game unmounts and disposes the
\* manager, which it does not use afterwards
NextDispose ==
    \/ \E t \in Ticks :
          /\ DOMAIN inbox = Workers
          /\ CMUpdateChunks(t.player, t.cameraDirection, t.frustum, t.r)
    \/ \E i \in Workers : WorkerReply(i)
    \/ CMDispose

\* edits made while jobs are with the workers: an interior cell of the
\* player's chunk and a border cell of its -x neighbour
RaceEdits == {<<2, 1, 2>>, <<-1, 1, 2>>}

\* ticks, edits through the ChunkManager and worker replies
NextRace ==
    \/ \E t \in Ticks : CMUpdateChunks(t.player, t.cameraDirection, t.frustum, t.r)
    \/ \E b \in RaceEdits, type \in EditTypes : CMSetBlock(b[1], b[2], b[3], type, 0)
    \/ \E i \in Workers : WorkerReply(i)

Next == NextWorld \/ NextPool \/ NextEdit \/ NextDispose \/ NextRace

Spec == Init /\ [][Next]_vars
SpecWorld == Init /\ [][NextWorld]_vars
SpecPool == Init /\ [][NextPool]_vars
SpecEdit == Init /\ [][NextEdit]_vars
SpecDispose == Init /\ [][NextDispose]_vars
SpecRace == Init /\ [][NextRace]_vars


(***************************************************************************)
(* Properties                                                              *)
(***************************************************************************)
InRange(y) == y >= 0 /\ y < WORLD_HEIGHT

RECURSIVE SumLen(_, _)
SumLen(boxes, S) ==
    IF S = {} THEN 0
    ELSE LET i == CHOOSE j \in S : TRUE
         IN  Len(boxes[i]) + SumLen(boxes, S \ {i})

\* the jobs posted to workers that no worker has taken up yet
InFlight == SumLen(inbox, Workers)

\* C1: activeWorkerCount stays between 0 and MAX_CONCURRENT_WORKERS in every
\* reachable state, it covers every job that is with a worker, and jobs wait
\* in workerQueue only while the ceiling is reached.
C1_WorkerCeiling ==
    /\ activeWorkerCount >= 0
    /\ activeWorkerCount <= MAX_CONCURRENT_WORKERS
    /\ InFlight <= activeWorkerCount
    /\ workerQueue # <<>> => activeWorkerCount = MAX_CONCURRENT_WORKERS

\* jobs wait in the queue at the ceiling, after workers have already answered
C1_Witness ==
    /\ workerQueue # <<>>
    /\ activeWorkerCount = MAX_CONCURRENT_WORKERS
    /\ answered # {}

\* C2: after a worker crash or a malformed result the job's slot is reclaimed:
\* activeWorkerCount counts exactly the jobs that are still with a worker.
C2_SlotReclaimed == activeWorkerCount = InFlight

\* C3: an updateChunks call whose jobs have all been answered by the workers
\* has completed.
C3_TickCompletes ==
    \A c \in 1 .. Len(calls) :
        (\A j \in calls[c].jobs : \E a \in answered : a.id = j) => calls[c].done

\* C4: when a worker replies to the job submitted for key k at LOD l, the mesh
\* cache holds an entry under k with lodLevel l.
C4_ReplyCached ==
    [][\A j \in answered' \ answered :
          \E i \in 1 .. Len(chunkPool') :
              /\ chunkPool'[i].key = j.key
              /\ chunkPool'[i].value.lodLevel = j.lodLevel]_vars

\* coordinates around chunk borders on both sides of 0
ProbeCoords == {-CHUNK_SIZE - 1, -CHUNK_SIZE, -1, 0, CHUNK_SIZE - 1, CHUNK_SIZE}
ProbeColumns == {<<-CHUNK_SIZE - 1, 2>>, <<-1, -1>>, <<0, CHUNK_SIZE - 1>>, <<2, -CHUNK_SIZE>>}
ProbeYs == {0, WORLD_HEIGHT - 1}

\* C5: setBlock(x, y, z, T) for y in range followed by getBlock(x, y, z)
\* returns the block of type T written at (x, y, z), from the same chunk and
\* without generating one; chunkX * CHUNK_SIZE + localX = x with localX in
\* 0 .. CHUNK_SIZE - 1, for negative coordinates too.
C5_SetThenGet ==
    /\ \A x \in ProbeCoords :
          /\ LocalCoord(x) \in Local
          /\ ChunkCoord(x) * CHUNK_SIZE + LocalCoord(x) = x
    /\ (last.op = "setBlock" /\ InRange(last.args[2])) =>
          \A r \in RandomTapes :
              LET got == getBlock(World, last.args[1], last.args[2], last.args[3], r)
              IN  /\ got.ret.type = last.args[4]
                  /\ got.ret.position = <<last.args[1], last.args[2], last.args[3]>>
                  /\ got.w = World
    /\ \A c \in ProbeColumns, y \in ProbeYs, type \in BlockTypes, r \in RandomTapes :
          LET after == setBlock(World, c[1], y, c[2], type, r).w
          IN  getBlock(after, c[1], y, c[2], r).ret.type = type

\* an AIR block was written at a negative x and is read back
C5_Witness ==
    /\ last.op = "setBlock"
    /\ InRange(last.args[2])
    /\ last.args[1] < 0
    /\ last.args[4] = "AIR"
    /\ getBlock(World, last.args[1], last.args[2], last.args[3], 0).ret.type = "AIR"

hasTop(blocks, x, z) == \E y \in Heights : blocks[x][y][z].type # "AIR"
top(blocks, x, z) ==
    CHOOSE y \in Heights :
        /\ blocks[x][y][z].type # "AIR"
        /\ \A above \in Heights : above > y => blocks[x][above][z].type = "AIR"

\* C6: in every resident chunk, heightMap[x][z] is the Y of the topmost
\* non-AIR block of column (x, z).
C6_HeightMapIsTop ==
    \A i \in 1 .. Len(chunks) :
        LET chunk == heap[chunks[i].value]
        IN  \A x \in Local, z \in Local :
                hasTop(chunk.blocks, x, z) =>
                    chunk.heightMap[x][z] = top(chunk.blocks, x, z)

\* C7: a getBlock or setBlock call with y outside 0 .. WORLD_HEIGHT - 1 returns
\* undefined and leaves every chunk and the chunk cache as they were.
C7_OutOfRangeNoOp ==
    [][(/\ ops' = ops + 1
        /\ last'.op \in {"getBlock", "setBlock"}
        /\ ~InRange(last'.args[2]))
       => (heap' = heap /\ chunks' = chunks /\ last'.ret = Undefined)]_vars

\* setBlock was called above the world while chunks were resident
C7_Witness ==
    /\ last.op = "setBlock"
    /\ last.args[2] = WORLD_HEIGHT
    /\ chunks # <<>>

\* C8: ChunkManager.setBlock with y outside 0 .. WORLD_HEIGHT - 1 changes the
\* isDirty flag of no chunk.
C8_OutOfRangeKeepsFlags ==
    [][(/\ ops' = ops + 1
        /\ last'.op = "ChunkManager.setBlock"
        /\ ~InRange(last'.args[2]))
       => \A id \in 1 .. Len(heap) : heap'[id].isDirty = heap[id].isDirty]_vars

\* the edits tried twice on every reachable world: in a chunk with negative
\* coordinates, at the bottom of a column and at the top of the world
RepeatColumns == {<<-1, 2>>}
RepeatYs == {1, WORLD_HEIGHT - 1}

\* C9: repeating the setBlock call just made changes nothing: blocks,
\* heightMap, isDirty and the neighbours' flags stay as the first call left
\* them, through the ChunkManager and on the WorldGenerator alone.
C9_Idempotent ==
    /\ last.op = "ChunkManager.setBlock" =>
          \A r \in RandomTapes :
              cmSetBlock(World, activeChunks, last.args[1], last.args[2],
                         last.args[3], last.args[4], r) = World
    /\ \A c \in RepeatColumns, y \in RepeatYs, type \in EditTypes :
          LET once == setBlock(World, c[1], y, c[2], type, 0).w
          IN  setBlock(once, c[1], y, c[2], type, 0).w = once

\* an in-range edit was made through the ChunkManager in a chunk it tracks
C9_Witness ==
    /\ last.op = "ChunkManager.setBlock"
    /\ InRange(last.args[2])
    /\ getChunkKey(ChunkCoord(last.args[1]), ChunkCoord(last.args[3])) \in DOMAIN activeChunks
    /\ heap[activeChunks[getChunkKey(ChunkCoord(last.args[1]),
                                     ChunkCoord(last.args[3]))]].isDirty

\* the chunks the claim says an edit of the cell (localX, localZ) of chunk
\* (chunkX, chunkZ) marks
claimedDirty(chunkX, chunkZ, localX, localZ) ==
    {getChunkKey(chunkX, chunkZ)}
    \cup (IF localX = 0 THEN {getChunkKey(chunkX - 1, chunkZ)} ELSE {})
    \cup (IF localX = CHUNK_SIZE - 1 THEN {getChunkKey(chunkX + 1, chunkZ)} ELSE {})
    \cup (IF localZ = 0 THEN {getChunkKey(chunkX, chunkZ - 1)} ELSE {})
    \cup (IF localZ = CHUNK_SIZE - 1 THEN {getChunkKey(chunkX, chunkZ + 1)} ELSE {})

\* C10: ChunkManager.setBlock with y in range leaves dirty the chunk that
\* holds the block and, of the chunks the manager tracks, the owning chunk and
\* the face neighbours picked by localX and localZ; the flag of every other
\* tracked chunk is as before the call.
C10_DirtyPropagation ==
    [][(/\ ops' = ops + 1
        /\ last'.op = "ChunkManager.setBlock"
        /\ InRange(last'.args[2]))
       => LET x == last'.args[1]
              z == last'.args[3]
              marked == claimedDirty(ChunkCoord(x), ChunkCoord(z),
                                     LocalCoord(x), LocalCoord(z))
              owner == cacheIndex(chunks', getChunkKey(ChunkCoord(x), ChunkCoord(z)))
          IN  /\ owner # 0
              /\ heap'[chunks'[owner].value].isDirty
              /\ \A k \in DOMAIN activeChunks :
                    IF k \in marked
                    THEN heap'[activeChunks[k]].isDirty
                    ELSE heap'[activeChunks[k]].isDirty = heap[activeChunks[k]].isDirty]_vars

\* the entries of an LRU cache of CACHE_SIZE entries, least recent first,
\* after key has been accessed or inserted: the others keep their order and
\* the least recent ones make room
lruTouched(cache, key) ==
    LET other(e) == e.key # key
        rest == SelectSeq(cache, other)
        room == CACHE_SIZE - 1
    IN  IF Len(rest) > room
        THEN SubSeq(rest, Len(rest) - room + 1, Len(rest))
        ELSE rest

\* chunk coordinates asked for on every reachable cache
CacheProbes == {<<0, 0>>, <<-1, 0>>, <<0, -1>>, <<-1, -1>>}

\* C11: the chunk cache never holds more than CACHE_SIZE chunks; a getChunk,
\* hit or miss, makes its key the most recently used entry, keeps the other
\* entries in their order and, when room is needed, drops the least recently
\* accessed one; a hit returns the cached object.
C11_LruCache ==
    [][/\ Len(chunks') <= CACHE_SIZE
       /\ \A c \in CacheProbes, r \in RandomTapes :
             LET key == getChunkKey(c[1], c[2])
                 got == getChunk(World, c[1], c[2], r)
                 i == cacheIndex(chunks, key)
             IN  /\ Len(got.w.chunks) <= CACHE_SIZE
                 /\ SubSeq(got.w.chunks, 1, Len(got.w.chunks) - 1) = lruTouched(chunks, key)
                 /\ got.w.chunks[Len(got.w.chunks)].key = key
                 /\ i # 0 => got.w.chunks[Len(got.w.chunks)] = chunks[i]
       /\ (/\ ops' = ops + 1
           /\ last'.op = "ChunkManager.setBlock"
           /\ InRange(last'.args[2]))
          => LET key == getChunkKey(ChunkCoord(last'.args[1]), ChunkCoord(last'.args[3]))
             IN  /\ chunks' # <<>>
                 /\ chunks'[Len(chunks')].key = key
                 /\ SubSeq(chunks', 1, Len(chunks') - 1) = lruTouched(chunks, key)]_vars

\* the cache is full and a chunk created after its least recent entry has
\* been evicted: the older chunk was kept because it was accessed since
C11_Witness ==
    /\ Len(chunks) = CACHE_SIZE
    /\ last.op = "ChunkManager.setBlock"
    /\ \E id \in 1 .. Len(heap) :
          /\ id > chunks[1].value
          /\ ~heap[id].isGenerated
          /\ \A i \in 1 .. Len(chunks) : chunks[i].key # heap[id].position

\* C12: getChunk never returns undefined.  On a miss it generates the chunk,
\* caches it and returns it, a new object with the requested position and
\* isGenerated = true; on a hit it returns the cached object and generates
\* nothing.
C12_GetChunkTotal ==
    [][(ops' = ops + 1 /\ last'.op = "getChunk")
       => LET key == getChunkKey(last'.args[1], last'.args[2])
              i == cacheIndex(chunks, key)
              chunk == last'.ret
          IN  /\ chunk # Undefined
              /\ chunk \in 1 .. Len(heap')
              /\ heap'[chunk].position = <<last'.args[1], last'.args[2]>>
              /\ heap'[chunk].isGenerated
              /\ chunks'[Len(chunks')] = [key |-> key, value |-> chunk]
              /\ IF i # 0
                 THEN chunk = chunks[i].value /\ heap' = heap
                 ELSE chunk = Len(heap) + 1 /\ Len(heap') = Len(heap) + 1]_vars

\* getChunk returned a chunk with negative coordinates that had been edited
\* before: a hit
C12_Witness ==
    /\ last.op = "getChunk"
    /\ last.args[1] < 0
    /\ heap[last.ret].isDirty
    /\ Len(heap) = 1

\* WorldGenerator.dispose: every cached chunk is wiped and the cache is reset
wgDispose(w) ==
    [heap |-> [id \in DOMAIN w.heap |->
                 IF \E i \in 1 .. Len(w.chunks) : w.chunks[i].value = id
                 THEN disposeChunk(w.heap[id]) ELSE w.heap[id]],
     chunks |-> <<>>]

\* C13: two generateChunk(x, z) calls on the same noise generators, the cache
\* cleared in between, build chunks with the same blocks, biomeMap and
\* heightMap, whatever was generated before and whatever Math.random() gives.
C13_Deterministic ==
    \A c \in WorldChunks, r1 \in RandomTapes, r2 \in RandomTapes :
        LET first == generateChunk(World, c[1], c[2], r1)
            second == generateChunk(wgDispose(first.w), c[1], c[2], r2)
            a == first.w.heap[first.ret]
            b == second.w.heap[second.ret]
        IN  /\ a.biomeMap = b.biomeMap
            /\ a.heightMap = b.heightMap
            /\ a.blocks = b.blocks

\* the jobs waiting in workerQueue or posted to a worker
Pending ==
    {workerQueue[i] : i \in 1 .. Len(workerQueue)}
    \cup UNION {{inbox[w][i] : i \in 1 .. Len(inbox[w])} : w \in DOMAIN inbox}

\* distances on both sides of every threshold
ProbeDistances == {0, 31, 32, 33, 63, 64, 65, 128, 129, 255, 256, 257, 300}

\* level is the smallest 0-based index i with d4 <= (2 * LOD_DISTANCES[i])^2,
\* or the length of the table when there is none
isFirstThreshold(level, d4) ==
    IF \E i \in 1 .. Len(LOD_DISTANCES) : d4 <= 4 * LOD_DISTANCES[i] * LOD_DISTANCES[i]
    THEN /\ level + 1 \in 1 .. Len(LOD_DISTANCES)
         /\ d4 <= 4 * LOD_DISTANCES[level + 1] * LOD_DISTANCES[level + 1]
         /\ \A j \in 1 .. level : d4 > 4 * LOD_DISTANCES[j] * LOD_DISTANCES[j]
    ELSE level = Len(LOD_DISTANCES)

\* C14: getLODLevel(d) is the smallest index i with d <= LOD_DISTANCES[i]
\* (32, 64, 128, 256) and the length of the table beyond the last threshold,
\* so a greater distance never gets a smaller level; the jobs updateChunks has
\* just issued carry the level of their chunk's distance.
C14_LodLevel ==
    /\ LOD_DISTANCES = <<32, 64, 128, 256>>
    /\ \A d \in ProbeDistances : isFirstThreshold(getLODLevel(4 * d * d), 4 * d * d)
    /\ \A d1 \in ProbeDistances, d2 \in ProbeDistances :
          d1 < d2 => getLODLevel(4 * d1 * d1) <= getLODLevel(4 * d2 * d2)
    /\ last.op = "updateChunks" =>
          \A task \in Pending :
              task.call = Len(calls) =>
                  isFirstThreshold(task.lodLevel,
                                   distance4(task.key[1], task.key[2], last.args[1]))

\* jobs of two different levels are with the workers after a tick
C14_Witness ==
    /\ last.op = "updateChunks"
    /\ \E near \in Pending, far \in Pending :
          /\ near.lodLevel = 0
          /\ far.lodLevel = 1
          /\ far.call = Len(calls)

\* the horizontal (x, z) distance of the player from the chunk centre, as
\* 4 * distance^2
horizontal4(chunkX, chunkZ, player) ==
    distance4(chunkX, chunkZ, <<player[1], 0, player[3]>>)

\* C15: the LOD level a tick computes for a chunk is the level of the
\* horizontal distance between the player and the chunk centre, so it is the
\* same for every height y of the player.
C15_HorizontalLod ==
    last.op = "updateChunks" =>
        \A task \in Pending :
            task.call = Len(calls) =>
                task.lodLevel = getLODLevel(horizontal4(task.key[1], task.key[2],
                                                        last.args[1]))

\* the chunks of a priority list that need a mesh, given the mesh cache and
\* the chunks tracked before the walk; a chunk not tracked yet is generated
\* clean
needing(list, pool, active, objects) ==
    LET needs(e) ==
            LET i == meshIndex(pool, e.key)
            IN  \/ i = 0
                \/ pool[i].value.lodLevel # e.lodLevel
                \/ (e.key \in DOMAIN active /\ objects[active[e.key]].isDirty)
    IN  SelectSeq(list, needs)

\* the mesh cache holding one mesh for key, built at lodLevel
onlyMesh(key, lodLevel) ==
    <<[key |-> key,
       value |-> [geometry |-> [disposed |-> FALSE], lodLevel |-> lodLevel]]>>

\* C16: a chunk reached by the priority walk of updateChunks gets a job if and
\* only if it has no cached mesh, or the cached mesh has another lodLevel, or
\* the chunk is dirty: the jobs of a tick are those of the first chunks of the
\* priority order that need a mesh, and with a mesh cached for a tracked chunk
\* the walk submits the chunk exactly when the LOD differs or the chunk is
\* dirty.
C16_JobIffNeeded ==
    [][/\ (last'.op = "updateChunks" /\ Len(calls') = Len(calls) + 1)
          => LET list == sortByPriority(
                             chunkPrioritiesFrom(0, last'.args[1], last'.args[2],
                                                 last'.args[3]), <<>>)
                 need == needing(list, chunkPool, activeChunks, heap)
                 count == Min(Len(need), MAX_CONCURRENT_WORKERS)
             IN  {<<task.key, task.lodLevel>> :
                     task \in {t \in Pending' : t.call = Len(calls')}}
                 = {<<need[i].key, need[i].lodLevel>> : i \in 1 .. count}
       /\ \A key \in DOMAIN activeChunks, cached \in 0 .. 1, lodLevel \in 0 .. 1 :
             LET st == [w |-> World, activeChunks |-> activeChunks,
                        chunkPool |-> onlyMesh(key, cached), p |-> Pool,
                        processedCount |-> 0, jobs |-> {}, thrown |-> FALSE]
                 walked == processChunk(st, key, lodLevel,
                                        activeOrGenerated(st, key, 0), Len(calls) + 1)
             IN  (walked.jobs # {})
                 <=> (cached # lodLevel \/ heap[activeChunks[key]].isDirty)]_vars

\* a tick has submitted a tracked chunk that an edit had made dirty
C16_Witness ==
    /\ last.op = "updateChunks"
    /\ Len(calls) = 2
    /\ ops > 0
    /\ \E task \in Pending :
          /\ task.call = 2
          /\ task.chunk.isDirty

\* C17: ChunkManager.dispose() leaves the mesh cache, activeChunks and the
\* worker list empty and every worker terminated; a second dispose() changes
\* nothing.
C17_Dispose ==
    [][(ops' = ops + 1 /\ last'.op = "dispose")
       => /\ chunkPool' = <<>>
          /\ activeChunks' = <<>>
          /\ DOMAIN inbox' = {}
          /\ terminated' = Workers
          /\ cmDispose(Manager') = Manager'
          /\ last.op = "dispose" =>
                /\ Manager' = Manager
                /\ UNCHANGED <<worldVars, workerQueue, activeWorkerCount, calls,
                               answered, failed>>]_vars

\* the manager was disposed twice, the first time with chunks tracked and jobs
\* at the workers
C17_Witness ==
    /\ last.op = "dispose"
    /\ ops = 2
    /\ calls # <<>>
    /\ activeWorkerCount > 0
    /\ activeChunks = <<>>
    /\ terminated = Workers

\* C18: getBlock at a y in range in a chunk that has never been generated
\* generates nothing and reports no block (undefined).
C18_UnresolvedIsNone ==
    [][(/\ ops' = ops + 1
        /\ last'.op = "getBlock"
        /\ InRange(last'.args[2])
        /\ \A id \in 1 .. Len(heap) :
              heap[id].position # <<ChunkCoord(last'.args[1]), ChunkCoord(last'.args[3])>>)
       => (heap' = heap /\ last'.ret = Undefined)]_vars

visibleOf(call) ==
    LET list == chunkPrioritiesFrom(0, call.args[1], call.args[2], call.args[3])
    IN  {list[i] : i \in 1 .. Len(list)}

\* C20: one updateChunks call issues jobs for at most MAX_CONCURRENT_WORKERS
\* chunks, and no visible chunk that needed a mesh and got no job has a higher
\* priority than a chunk that got one.
C20_HighestPriorityFirst ==
    [][(last'.op = "updateChunks" /\ Len(calls') = Len(calls) + 1)
       => LET submitted == {task.key : task \in {t \in Pending' : t.call = Len(calls')}}
              visible == visibleOf(last')
              skipped == {b \in visible :
                            /\ b.key \notin submitted
                            /\ needing(<<b>>, chunkPool, activeChunks, heap) # <<>>}
          IN  /\ Cardinality(submitted) <= MAX_CONCURRENT_WORKERS
              /\ Cardinality(calls'[Len(calls')].jobs) = Cardinality(submitted)
              /\ \A a \in visible, b \in skipped :
                    a.key \in submitted => a.priority >= b.priority]_vars

\* a tick has issued MAX_CONCURRENT_WORKERS jobs and left out a visible chunk
\* of lower priority than one it submitted
C20_Witness ==
    /\ last.op = "updateChunks"
    /\ Cardinality(calls[Len(calls)].jobs) = MAX_CONCURRENT_WORKERS
    /\ \E a \in visibleOf(last), b \in visibleOf(last) :
          /\ \E task \in Pending : task.call = Len(calls) /\ task.key = a.key
          /\ \A task \in Pending : task.call = Len(calls) => task.key # b.key
          /\ a.priority > b.priority

\* job a was submitted before job b: ids are <<call, number within the call>>
Before(a, b) == a[1] < b[1] \/ (a[1] = b[1] /\ a[2] < b[2])

\* the ids of the jobs posted to a worker so far, given the inboxes
postedIds(boxes) ==
    UNION {{boxes[w][i].id : i \in 1 .. Len(boxes[w])} : w \in DOMAIN boxes}

\* C21: jobs are posted to the workers in the order of their submission: the
\* queue is in submission order and every job posted was submitted before
\* every job still queued; when a reply frees a slot while jobs are queued,
\* the head of the queue is posted in that step; no job is queued while
\* activeWorkerCount is below the ceiling.
C21_Fifo ==
    [][/\ \A i \in 1 .. Len(workerQueue') : \A j \in (i + 1) .. Len(workerQueue') :
             Before(workerQueue'[i].id, workerQueue'[j].id)
       /\ \A id \in postedIds(inbox') \cup {a.id : a \in answered' \cup failed'} :
             \A i \in 1 .. Len(workerQueue') : Before(id, workerQueue'[i].id)
       /\ (answered' # answered /\ workerQueue # <<>>)
             => /\ Head(workerQueue).id \in postedIds(inbox')
                /\ workerQueue' = Tail(workerQueue)
       /\ workerQueue' # <<>> => activeWorkerCount' = MAX_CONCURRENT_WORKERS]_vars

\* every job of the second tick had to queue, a worker has replied and a job
\* of the second tick is with a worker while others still wait
C21_Witness ==
    /\ Len(calls) = 2
    /\ Cardinality(calls[1].jobs) = MAX_CONCURRENT_WORKERS
    /\ answered # {}
    /\ workerQueue # <<>>
    /\ \E id \in postedIds(inbox) : id[1] = 2

\* the mesh cache holding one mesh for key whose geometry.dispose() throws
throwingMesh(key, lodLevel) ==
    <<[key |-> key,
       value |-> [geometry |-> [disposed |-> FALSE, throws |-> TRUE],
                  lodLevel |-> lodLevel]]>>

C23_CavesSpareBedrockAndWater ==
    last.op = "generateChunk" =>
        LET chunk == heap[last.ret]
        IN  \A x \in Local, z \in Local :
                /\ chunk.blocks[x][0][z].type = "STONE"
                /\ \A y \in Heights :
                      (y > chunk.heightMap[x][z] /\ y <= WATER_LEVEL)
                          => chunk.blocks[x][y][z].type = "WATER"

\* the block types of a block array
typesOf(blocks) ==
    [x \in DOMAIN blocks |-> [y \in DOMAIN blocks[x] |-> [z \in DOMAIN blocks[x][y] |->
        blocks[x][y][z].type]]]

C25_ResidentChunkKept ==
    [][\A i \in 1 .. Len(chunks), j \in 1 .. Len(chunks') :
          chunks[i].key = chunks'[j].key
          => /\ chunks'[j].value = chunks[i].value
             /\ last'.op = "updateChunks"
                   => heap'[chunks'[j].value].blocks = heap[chunks[i].value].blocks]_vars

\* the chunk resident in world w that holds column (x, z), after a getChunk
residentChunk(w, x, z) ==
    w.heap[w.chunks[cacheIndex(w.chunks, getChunkKey(ChunkCoord(x), ChunkCoord(z)))].value]

\* heightMap[x][z] of world column (x, z) is the Y of its topmost non-AIR
\* block, and it designates no AIR voxel
heightConsistent(w, x, z) ==
    LET chunk == residentChunk(w, x, z)
        localX == LocalCoord(x)
        localZ == LocalCoord(z)
        height == chunk.heightMap[localX][localZ]
    IN  /\ hasTop(chunk.blocks, localX, localZ)
            => height = top(chunk.blocks, localX, localZ)
        /\ height \in Heights => chunk.blocks[localX][height][localZ].type # "AIR"

RECURSIVE dugDown(_, _, _, _)
\* the world after n calls setBlock(x, heightMap[x][z], z, 'AIR'): the top
\* block of the column is removed n times
dugDown(w, x, z, n) ==
    IF n = 0 THEN w
    ELSE LET height == residentChunk(w, x, z).heightMap[LocalCoord(x)][LocalCoord(z)]
         IN  dugDown(setBlock(w, x, height, z, "AIR", 0).w, x, z, n - 1)

\* the column dug into: one of a chunk with negative coordinates
DigColumns == {<<-1, 2>>}

\* C26: setBlock keeps the height map consistent: when heightMap[x][z] is the
\* topmost non-AIR Y of the column before the call, it is so after the call,
\* and it never designates an AIR voxel, also when the call removes the last
\* non-AIR block of the column.
C26_HeightMapKept ==
    \A c \in DigColumns, n \in 0 .. WORLD_HEIGHT, y \in Heights, type \in EditTypes :
        LET capped == setBlock(World, c[1], WORLD_HEIGHT - 1, c[2], "STONE", 0).w
            before == dugDown(capped, c[1], c[2], n)
            after == setBlock(before, c[1], y, c[2], type, 0).w
        IN  heightConsistent(before, c[1], c[2]) => heightConsistent(after, c[1], c[2])

\* C27: a meshing job is posted only to a worker that has no unanswered job:
\* while activeWorkerCount is below MAX_CONCURRENT_WORKERS no worker has two
\* jobs outstanding.
C27_IdleWorkerOnly ==
    activeWorkerCount < MAX_CONCURRENT_WORKERS =>
        \A i \in DOMAIN inbox : Len(inbox[i]) <= 1

\* C28: at most one meshing job per chunk key is queued or in flight at any
\* time: an updateChunks call that starts before a chunk's previous job has
\* completed submits no second job for that chunk.
C28_OneJobPerKey ==
    \A a, b \in Pending : a.key = b.key => a.id = b.id

residentOf(cache, key) ==
    IF cacheIndex(cache, key) = 0 THEN Undefined
    ELSE cache[cacheIndex(cache, key)].value

\* C30: for every key of activeChunks the chunk object held there is the one
\* resident in the WorldGenerator cache under that key, and no meshing job
\* holds a chunk that the cache has evicted and wiped (blocks = []).
C30_ActiveIsResident ==
    /\ \A key \in DOMAIN activeChunks : residentOf(chunks, key) = activeChunks[key]
    /\ \A task \in Pending : task.chunk.blocks # <<>>

====
